---- MODULE Spec2Model ----
(***************************************************************************)
(* Indicator computation (calculate_indicators), multi-strategy signal     *)
(* evaluation (analyze_stock) and the scan over a ticker list (main) of    *)
(* src/app.py.                                                             *)
(*                                                                         *)
(* Numbers.  pandas computes in IEEE doubles; the model computes in exact  *)
(* rationals.  A cell of a numeric column is a record                      *)
(*     [k |-> "num", n |-> numerator, d |-> denominator > 0]  (reduced)    *)
(*     [k |-> "nan", ...]   not-a-number (undefined)                       *)
(*     [k |-> "inf", n |-> +1 / -1, ...]   the result of x / 0, x # 0      *)
(* The exponentially weighted columns (MACD, MACD_Signal) have             *)
(* denominators that outgrow machine integers, so a cell of row t of such  *)
(* a column is [k |-> "num", p, n, e], two multi-limb naturals and an      *)
(* exponent, standing for (p - n) / EwmScale^e.                            *)
(***************************************************************************)
EXTENDS Integers, Sequences, FiniteSets, TLC

VARIABLES pc, df, df_analyzed, selected_strategies, matched_reasons, result

(* main's scan: the ticker list, the position in it, the counter, and what  *)
(* the pass did: the analyze_stock calls and the matches it displayed.      *)
VARIABLES tickers, scan_i, found_count, evaluated, shown

scan == <<tickers, scan_i, found_count, evaluated, shown>>

vars == <<pc, df, df_analyzed, selected_strategies, matched_reasons, result, scan>>

----------------------------------------------------------------------------
(* Exact rational cells with NaN and infinities (numpy float semantics).   *)

Abs(x) == IF x < 0 THEN -x ELSE x

Max(a, b) == IF a > b THEN a ELSE b

Min(a, b) == IF a < b THEN a ELSE b

RECURSIVE GCD(_, _)
GCD(a, b) == IF b = 0 THEN a ELSE GCD(b, a % b)

NaN == [k |-> "nan", n |-> 0, d |-> 1]

Inf(s) == [k |-> "inf", n |-> s, d |-> 1]

Rat(n, d) ==
    IF d = 1 THEN [k |-> "num", n |-> n, d |-> 1]
    ELSE LET s == IF d < 0 THEN -1 ELSE 1
             g == GCD(Abs(n), Abs(d))
         IN  [k |-> "num", n |-> (s * n) \div g, d |-> (s * d) \div g]

R(x) == [k |-> "num", n |-> x, d |-> 1]

isna(a) == a.k = "nan"

Sign(a) == IF a.n > 0 THEN 1 ELSE IF a.n < 0 THEN -1 ELSE 0

Neg(a) == IF a.k = "nan" THEN NaN ELSE [a EXCEPT !.n = -a.n]

Add(a, b) ==
    IF a.k = "nan" \/ b.k = "nan" THEN NaN
    ELSE IF a.k = "inf" /\ b.k = "inf" THEN (IF a.n = b.n THEN a ELSE NaN)
    ELSE IF a.k = "inf" THEN a
    ELSE IF b.k = "inf" THEN b
    ELSE Rat(a.n * b.d + b.n * a.d, a.d * b.d)

Sub(a, b) == Add(a, Neg(b))

Mul(a, b) ==
    IF a.k = "nan" \/ b.k = "nan" THEN NaN
    ELSE IF a.k = "inf" \/ b.k = "inf"
         THEN (IF Sign(a) * Sign(b) = 0 THEN NaN ELSE Inf(Sign(a) * Sign(b)))
    ELSE Rat(a.n * b.n, a.d * b.d)

Div(a, b) ==
    IF a.k = "nan" \/ b.k = "nan" THEN NaN
    ELSE IF a.k = "inf" THEN (IF b.k = "inf" THEN NaN
                              ELSE Inf(IF b.n < 0 THEN -a.n ELSE a.n))
    ELSE IF b.k = "inf" THEN R(0)
    ELSE IF b.n = 0 THEN (IF a.n = 0 THEN NaN ELSE Inf(Sign(a)))
    ELSE Rat(a.n * b.d, a.d * b.n)

(* Comparisons: every comparison with NaN is False. *)
Lt(a, b) ==
    IF a.k = "nan" \/ b.k = "nan" THEN FALSE
    ELSE IF a.k = "inf" THEN a.n < 0 /\ ~(b.k = "inf" /\ b.n < 0)
    ELSE IF b.k = "inf" THEN b.n > 0
    ELSE a.n * b.d < b.n * a.d

Gt(a, b) == Lt(b, a)

Eq(a, b) == a.k # "nan" /\ b.k # "nan" /\ a = b

Le(a, b) == Lt(a, b) \/ Eq(a, b)

Ge(a, b) == Le(b, a)

AbsR(a) == IF a.k = "nan" THEN NaN ELSE [a EXCEPT !.n = Abs(a.n)]

(* Python's fixed-point format f"{x:.<digits>f}" of a finite number: the    *)
(* nearest decimal with that many fractional digits, a tie going to the     *)
(* even one; the text is its sign, its whole part and its fractional digits *)
(* read as a number.  A negative number keeps its sign when it rounds to 0. *)
Formatted(neg, scaled, digits) ==
    [neg |-> neg, whole |-> scaled \div 10^digits, frac |-> scaled % 10^digits,
     digits |-> digits]

FormatFixed(x, digits) ==
    LET a   == Abs(x.n) * 10^digits
        q   == a \div x.d
        rem == a % x.d
        scaled == IF 2 * rem > x.d \/ (2 * rem = x.d /\ q % 2 = 1) THEN q + 1 ELSE q
    IN  Formatted(x.n < 0, scaled, digits)

----------------------------------------------------------------------------
(* Multi-limb naturals (least significant limb first, no leading zeros).   *)

LimbBase == 10^6

RECURSIVE BigMulCarry(_, _, _, _)
BigMulCarry(a, c, i, carry) ==
    IF i > Len(a)
    THEN (IF carry = 0 THEN <<>> ELSE <<carry>>)
    ELSE LET v == a[i] * c + carry
         IN  <<v % LimbBase>> \o BigMulCarry(a, c, i + 1, v \div LimbBase)

BigMul(a, c) == IF c = 0 THEN <<>> ELSE BigMulCarry(a, c, 1, 0)

RECURSIVE BigAddCarry(_, _, _, _)
BigAddCarry(a, b, i, carry) ==
    IF i > Len(a) /\ i > Len(b)
    THEN (IF carry = 0 THEN <<>> ELSE <<carry>>)
    ELSE LET v == (IF i <= Len(a) THEN a[i] ELSE 0)
                  + (IF i <= Len(b) THEN b[i] ELSE 0) + carry
         IN  <<v % LimbBase>> \o BigAddCarry(a, b, i + 1, v \div LimbBase)

BigAdd(a, b) ==
    IF a = <<>> THEN b ELSE IF b = <<>> THEN a ELSE BigAddCarry(a, b, 1, 0)

(* Exact division by a small number, most significant limb first. *)
RECURSIVE BigDivRem(_, _, _, _)
BigDivRem(a, c, i, rem) ==
    IF i = 0 THEN <<>>
    ELSE LET v == rem * LimbBase + a[i]
         IN  BigDivRem(a, c, i - 1, v % c) \o <<v \div c>>

RECURSIVE BigTrim(_)
BigTrim(a) ==
    IF a # <<>> /\ a[Len(a)] = 0 THEN BigTrim(SubSeq(a, 1, Len(a) - 1)) ELSE a

BigDiv(a, c) == BigTrim(BigDivRem(a, c, Len(a), 0))

RECURSIVE BigLtFrom(_, _, _)
BigLtFrom(a, b, i) ==
    IF i = 0 THEN FALSE
    ELSE IF a[i] # b[i] THEN a[i] < b[i]
    ELSE BigLtFrom(a, b, i - 1)

BigLt(a, b) ==
    IF Len(a) # Len(b) THEN Len(a) < Len(b) ELSE BigLtFrom(a, b, Len(a))

RECURSIVE BigModFrom(_, _, _, _)
BigModFrom(a, c, i, rem) ==
    IF i = 0 THEN rem ELSE BigModFrom(a, c, i - 1, (rem * LimbBase + a[i]) % c)

BigMod(a, c) == BigModFrom(a, c, Len(a), 0)

(* Scaled cells: [p, n, e] stands for (p - n) / EwmScale^e.                 *)
EwmScale == 5 * 13 * 27

Cell(p, n, e) == [k |-> "num", p |-> p, n |-> n, e |-> e]

CellOfNat(x) == Cell(IF x = 0 THEN <<>> ELSE <<x>>, <<>>, 0)

RECURSIVE BigScale(_, _)
BigScale(a, steps) == IF steps = 0 THEN a ELSE BigScale(BigMul(a, EwmScale), steps - 1)

(* The same value written with exponent e >= a.e. *)
AtScale(a, e) == Cell(BigScale(a.p, e - a.e), BigScale(a.n, e - a.e), e)

CellSub(a, b) ==
    LET e == Max(a.e, b.e)
        x == AtScale(a, e)
        y == AtScale(b, e)
    IN  Cell(BigAdd(x.p, y.n), BigAdd(x.n, y.p), e)

CellLt(a, b) ==
    LET e == Max(a.e, b.e)
        x == AtScale(a, e)
        y == AtScale(b, e)
    IN  BigLt(BigAdd(x.p, y.n), BigAdd(y.p, x.n))

CellGt(a, b) == CellLt(b, a)

CellLe(a, b) == ~CellLt(b, a)

RECURSIVE BigSubBorrow(_, _, _, _)
BigSubBorrow(a, b, i, borrow) ==
    IF i > Len(a) THEN <<>>
    ELSE LET v == a[i] - (IF i <= Len(b) THEN b[i] ELSE 0) - borrow
         IN  <<IF v < 0 THEN v + LimbBase ELSE v>>
                \o BigSubBorrow(a, b, i + 1, IF v < 0 THEN 1 ELSE 0)

(* a - b for a >= b *)
BigSub(a, b) == BigTrim(BigSubBorrow(a, b, 1, 0))

RECURSIVE BigUnscale(_, _)
BigUnscale(a, steps) ==
    IF steps = 0 THEN a ELSE BigUnscale(BigDiv(a, EwmScale), steps - 1)

(* A natural of at most two limbs as a number. *)
BigToNat(a) ==
    IF a = <<>> THEN 0 ELSE IF Len(a) = 1 THEN a[1] ELSE a[1] + a[2] * LimbBase

(* f"{x:.<digits>f}" of a scaled cell: the floor of                         *)
(* (2 * 10^digits * |p - n| + EwmScale^e) / (2 * EwmScale^e); there is no   *)
(* tie, EwmScale being odd.                                                 *)
FormatFixedCell(c, digits) ==
    LET neg  == BigLt(c.p, c.n)
        mag  == IF neg THEN BigSub(c.n, c.p) ELSE BigSub(c.p, c.n)
        twice == BigAdd(BigMul(mag, 2 * 10^digits), BigScale(<<1>>, c.e))
    IN  Formatted(neg, BigToNat(BigDiv(BigUnscale(twice, c.e), 2)), digits)

----------------------------------------------------------------------------
(* pandas Series operations.  A Series is a sequence of cells.             *)

(* A Series or a column map as a concrete value (TLC would otherwise       *)
(* re-evaluate a function expression at every application).                *)
Concrete(s) == s \o <<>>

ConcreteMap(f) == f @@ <<>>

(* Running totals over the observed (non-NaN) cells of s[1..i]: pandas     *)
(* slides its window by adding the entering and removing the leaving cell.  *)
RECURSIVE PrefixSums(_, _, _)
PrefixSums(s, i, acc) ==
    IF i > Len(s) THEN acc
    ELSE PrefixSums(s, i + 1,
           Append(acc, IF isna(s[i]) THEN acc[i] ELSE Add(acc[i], s[i])))

RECURSIVE PrefixSquares(_, _, _)
PrefixSquares(s, i, acc) ==
    IF i > Len(s) THEN acc
    ELSE PrefixSquares(s, i + 1,
           Append(acc, IF isna(s[i]) THEN acc[i] ELSE Add(acc[i], Mul(s[i], s[i]))))

RECURSIVE PrefixCounts(_, _, _)
PrefixCounts(s, i, acc) ==
    IF i > Len(s) THEN acc
    ELSE PrefixCounts(s, i + 1, Append(acc, IF isna(s[i]) THEN acc[i] ELSE acc[i] + 1))

(* The totals of s[lo..hi] from running totals t (t[1] is the empty total). *)
WindowSum(t, lo, hi) == Sub(t[hi + 1], t[lo])

WindowCount(t, lo, hi) == t[hi + 1] - t[lo]

(* Series.diff(1) *)
Diff(s) == Concrete([i \in 1..Len(s) |-> IF i = 1 THEN NaN ELSE Sub(s[i], s[i - 1])])

(* Series.where(cond, other): keep the cell where cond holds. *)
Where(s, cond, other) == Concrete([i \in 1..Len(s) |-> IF cond[i] THEN s[i] ELSE other])

GtZero(s) == Concrete([i \in 1..Len(s) |-> Gt(s[i], R(0))])

LtZero(s) == Concrete([i \in 1..Len(s) |-> Lt(s[i], R(0))])

NegSeries(s) == Concrete([i \in 1..Len(s) |-> Neg(s[i])])

AbsSeries(s) == Concrete([i \in 1..Len(s) |-> AbsR(s[i])])

(* Series.replace(0, np.nan) *)
ReplaceZero(s) == Concrete([i \in 1..Len(s) |-> IF Eq(s[i], R(0)) THEN NaN ELSE s[i]])

(* Series.rolling(window, min_periods, center=True).mean(): the window is   *)
(* centred on the row and reaches (window - 1) \div 2 rows ahead.           *)
RollingMean_Centered(s, window, min_periods) ==
    LET sums   == PrefixSums(s, 1, <<R(0)>>)
        counts == PrefixCounts(s, 1, <<0>>)
        ahead  == (window - 1) \div 2
    IN  Concrete([i \in 1..Len(s) |->
            LET lo == Max(1, i + ahead - window + 1)
                hi == Min(Len(s), i + ahead)
                c  == WindowCount(counts, lo, hi)
            IN  IF c < min_periods THEN NaN ELSE Div(WindowSum(sums, lo, hi), R(c))])

(* Series.rolling(window, min_periods).mean(): the mean of the observed     *)
(* (non-NaN) cells of the trailing window, NaN below min_periods of them.   *)
RollingMean(s, window, min_periods) ==
    LET sums   == PrefixSums(s, 1, <<R(0)>>)
        counts == PrefixCounts(s, 1, <<0>>)
    IN  Concrete([i \in 1..Len(s) |->
            LET lo == Max(1, i - window + 1)
                c  == WindowCount(counts, lo, i)
            IN  IF c < min_periods THEN NaN ELSE Div(WindowSum(sums, lo, i), R(c))])

RollingSum(s, window, min_periods) ==
    LET sums   == PrefixSums(s, 1, <<R(0)>>)
        counts == PrefixCounts(s, 1, <<0>>)
    IN  Concrete([i \in 1..Len(s) |->
            LET lo == Max(1, i - window + 1)
                c  == WindowCount(counts, lo, i)
            IN  IF c < min_periods THEN NaN ELSE WindowSum(sums, lo, i)])

(* Series.rolling(window, min_periods).std(), ddof = 1.  A standard         *)
(* deviation is irrational in general: a cell holds its square, sq, and     *)
(* stands for sqrt(sq).  One observation gives 0/0 = NaN.                   *)
RollingStd(s, window, min_periods) ==
    LET sums    == PrefixSums(s, 1, <<R(0)>>)
        squares == PrefixSquares(s, 1, <<R(0)>>)
        counts  == PrefixCounts(s, 1, <<0>>)
    IN  Concrete([i \in 1..Len(s) |->
            LET lo == Max(1, i - window + 1)
                c  == WindowCount(counts, lo, i)
                sm == WindowSum(sums, lo, i)
            IN  IF c < min_periods \/ c < 2 THEN [k |-> "nan", sq |-> R(0)]
                ELSE [k |-> "num",
                      sq |-> Div(Sub(WindowSum(squares, lo, i), Div(Mul(sm, sm), R(c))),
                                 R(c - 1))]])

(* .fillna(0), * 2 on a std Series. *)
FillNaZero(s) ==
    Concrete([i \in 1..Len(s) |->
                 IF s[i].k = "nan" THEN [k |-> "num", sq |-> R(0)] ELSE s[i]])

ScaleStd(s, m) == Concrete([i \in 1..Len(s) |-> [s[i] EXCEPT !.sq = Mul(R(m * m), s[i].sq)]])

(* mid + sgn * std: a cell [base, sgn, sq] stands for base + sgn * sqrt(sq). *)
AddStd(mid, s, sgn) ==
    Concrete([i \in 1..Len(mid) |->
        [k |-> IF isna(mid[i]) \/ s[i].k = "nan" THEN "nan" ELSE "num",
         base |-> mid[i], sgn |-> sgn, sq |-> s[i].sq]])

(* The sign of x - (base + sgn * sqrt(sq)) for a defined rational x.        *)
CmpBand(x, u) ==
    LET dl == Sub(x, u.base)
        d2 == Mul(dl, dl)
    IN  IF u.sgn > 0
        THEN (IF Lt(dl, R(0)) THEN -1
              ELSE IF Lt(d2, u.sq) THEN -1 ELSE IF Gt(d2, u.sq) THEN 1 ELSE 0)
        ELSE (IF Gt(dl, R(0)) THEN 1
              ELSE IF Lt(d2, u.sq) THEN 1 ELSE IF Gt(d2, u.sq) THEN -1 ELSE 0)

GtBand(x, u) == ~isna(x) /\ u.k # "nan" /\ CmpBand(x, u) = 1

----------------------------------------------------------------------------
(* Series.ewm(span, adjust=False).mean() on a Series without NaN:           *)
(*     y[0] = x[0],  y[t] = (1 - alpha) * y[t-1] + alpha * x[t],            *)
(*     alpha = 2 / (span + 1),                                              *)
(* that is y[t] = ((span - 1) * y[t-1] + 2 * x[t]) / (span + 1).  The       *)
(* quotient keeps the exponent when the division is exact and takes one     *)
(* more factor EwmScale = 5 * 13 * 27 otherwise, which makes it exact for   *)
(* the spans 12, 26 and 9.                                                  *)
EwmStep(y, x, span) ==
    LET e  == Max(y.e, x.e)
        ys == AtScale(y, e)
        xs == AtScale(x, e)
        np == BigAdd(BigMul(ys.p, span - 1), BigMul(xs.p, 2))
        nn == BigAdd(BigMul(ys.n, span - 1), BigMul(xs.n, 2))
    IN  IF BigMod(np, span + 1) = 0 /\ BigMod(nn, span + 1) = 0
        THEN Cell(BigDiv(np, span + 1), BigDiv(nn, span + 1), e)
        ELSE Cell(BigMul(np, EwmScale \div (span + 1)),
                  BigMul(nn, EwmScale \div (span + 1)), e + 1)

RECURSIVE EwmFrom(_, _, _, _)
EwmFrom(x, span, i, acc) ==
    IF i > Len(x) THEN acc
    ELSE IF i = 1 THEN EwmFrom(x, span, 2, <<x[1]>>)
    ELSE EwmFrom(x, span, i + 1, Append(acc, EwmStep(acc[i - 1], x[i], span)))

Ewm(x, span) == EwmFrom(x, span, 1, <<>>)

(* A Series of integer cells as scaled cells. *)
Lift(s) == Concrete([i \in 1..Len(s) |-> CellOfNat(s[i].n)])

CellSeriesSub(a, b) == Concrete([i \in 1..Len(a) |-> CellSub(a[i], b[i])])

----------------------------------------------------------------------------
(* DataFrames.  A frame is [none, len, col]: none marks Python's None, col  *)
(* maps each column name of the frame to its Series.                        *)

NoneFrame == [none |-> TRUE, len |-> 0, col |-> <<>>]

Columns(f) == DOMAIN f.col

(* df_copy[name] = series *)
WithColumn(f, name, series) ==
    [f EXCEPT !.col = ConcreteMap([c \in {name} |-> series]) @@ f.col]

(* row.get(name, default) of row i *)
Get(f, i, name, default) == IF name \in Columns(f) THEN f.col[name][i] ELSE default

AllNull(s) == \A i \in 1..Len(s) : isna(s[i])

----------------------------------------------------------------------------
(* calculate_indicators                                                    *)

(* rolling(window).mean() without min_periods: the strict policy. *)
strict_rolling_mean(series, window) == RollingMean(series, window, window)

safe_rolling_mean(series, window) == RollingMean(series, window, 1)

safe_rolling_std(series, window) == RollingStd(series, window, 1)

RsiWindow == 14

MfiWindow == 14

(* RSI without loss.replace(0, np.nan): a zero average loss divides. *)
RSI_KeepZeroLoss(close) ==
    LET delta == Diff(close)
        gain  == RollingMean(Where(delta, GtZero(delta), R(0)), RsiWindow, RsiWindow)
        loss  == RollingMean(NegSeries(Where(delta, LtZero(delta), R(0))),
                             RsiWindow, RsiWindow)
        rs    == Concrete([i \in 1..Len(close) |-> Div(gain[i], loss[i])])
    IN  Concrete([i \in 1..Len(close) |->
                     Sub(R(100), Div(R(100), Add(R(1), rs[i])))])

(* RSI with the losses left negative (the minus sign of line 70 dropped). *)
RSI_SignedLoss(close) ==
    LET delta == Diff(close)
        gain  == RollingMean(Where(delta, GtZero(delta), R(0)), RsiWindow, RsiWindow)
        loss  == RollingMean(Where(delta, LtZero(delta), R(0)), RsiWindow, RsiWindow)
        lossR == ReplaceZero(loss)
        rs    == Concrete([i \in 1..Len(close) |-> Div(gain[i], lossR[i])])
    IN  Concrete([i \in 1..Len(close) |->
                     Sub(R(100), Div(R(100), Add(R(1), rs[i])))])

RSI(close) ==
    LET delta == Diff(close)
        gain  == RollingMean(Where(delta, GtZero(delta), R(0)), RsiWindow, RsiWindow)
        loss  == RollingMean(NegSeries(Where(delta, LtZero(delta), R(0))),
                             RsiWindow, RsiWindow)
        lossR == ReplaceZero(loss)
        rs    == Concrete([i \in 1..Len(close) |-> Div(gain[i], lossR[i])])
    IN  Concrete([i \in 1..Len(close) |->
                     Sub(R(100), Div(R(100), Add(R(1), rs[i])))])

MFI(high, low, close, volume) ==
    LET typical_price == Concrete([i \in 1..Len(close) |->
                             Div(Add(Add(high[i], low[i]), close[i]), R(3))])
        money_flow  == Concrete([i \in 1..Len(close) |->
                             Mul(typical_price[i], volume[i])])
        tpd         == Diff(typical_price)
        positive_mf == RollingSum(Where(money_flow, GtZero(tpd), R(0)),
                                  MfiWindow, MfiWindow)
        negative_mf == AbsSeries(RollingSum(Where(money_flow, LtZero(tpd), R(0)),
                                            MfiWindow, MfiWindow))
        negR        == ReplaceZero(negative_mf)
        money_ratio == Concrete([i \in 1..Len(close) |->
                             Div(positive_mf[i], negR[i])])
    IN  Concrete([i \in 1..Len(close) |->
                     Sub(R(100), Div(R(100), Add(R(1), money_ratio[i])))])

MACD(close) ==
    LET x    == Lift(close)
        exp1 == Ewm(x, 12)
        exp2 == Ewm(x, 26)
    IN  CellSeriesSub(exp1, exp2)

MACD_Signal(macd) == Ewm(macd, 9)

Disparity(f) ==
    IF "MA20" \in Columns(f) /\ ~AllNull(f.col["MA20"])
    THEN Concrete([i \in 1..f.len |->
                      Mul(Div(f.col["Close"][i], f.col["MA20"][i]), R(100))])
    ELSE Concrete([i \in 1..f.len |-> NaN])

(* std_dev = safe_rolling_std(close, 20).fillna(0), times 2 in the bands *)
(* The band width without fillna(0): an undefined deviation propagates. *)
BandWidth_NoFill(close) == ScaleStd(safe_rolling_std(close, 20), 2)

BandWidth(close) == ScaleStd(FillNaZero(safe_rolling_std(close, 20)), 2)

(* The columns the try block reads; a missing one raises KeyError, which    *)
(* the except clause turns into None.                                       *)
IndicatorInputs == {"Close", "High", "Low", "Volume"}

RaisesInTry(f) == ~(IndicatorInputs \subseteq Columns(f))

calculate_indicators(f) ==
    IF RaisesInTry(f) THEN NoneFrame
    ELSE
    LET close == f.col["Close"]
        macd  == MACD(close)
        mid   == safe_rolling_mean(close, 20)
        std_dev == BandWidth(close)
        f1 == [f EXCEPT !.col =
                 [MA5   |-> safe_rolling_mean(close, 5),
                  MA20  |-> safe_rolling_mean(close, 20),
                  MA60  |-> safe_rolling_mean(close, 60),
                  MA120 |-> safe_rolling_mean(close, 120),
                  RSI   |-> RSI(close),
                  MFI   |-> MFI(f.col["High"], f.col["Low"], close, f.col["Volume"]),
                  MACD  |-> macd,
                  MACD_Signal |-> MACD_Signal(macd),
                  BB_Mid   |-> mid,
                  BB_Upper |-> AddStd(mid, std_dev, 1),
                  BB_Lower |-> AddStd(mid, std_dev, -1),
                  VolMA20  |-> safe_rolling_mean(f.col["Volume"], 20)] @@ f.col]
    IN  WithColumn(f1, "Disparity", Disparity(f1))

----------------------------------------------------------------------------
(* analyze_stock: the strategy rules.  Each rule is written for the frame   *)
(* f = df_analyzed and the row t read as today (the code reads the last     *)
(* row, iloc[-1]); yesterday is row t - 1.  Rules are named by the letter   *)
(* that starts their catalogue entry.  Float thresholds (1.5, 0.7, 0.03,    *)
(* 95.0) are the exact decimals.                                            *)

(* today['Open'] on a frame without that column raises KeyError. *)
HasOpen(f) == "Open" \in Columns(f)

BullishBar(f, t) == HasOpen(f) /\ Gt(f.col["Close"][t], f.col["Open"][t])

VolumeSurge(f, t) ==
    /\ "VolMA20" \in Columns(f)
    /\ ~isna(Get(f, t, "Volume", NaN))
    /\ ~isna(Get(f, t, "VolMA20", NaN))
    /\ Gt(f.col["Volume"][t], Mul(f.col["VolMA20"][t], Rat(3, 2)))

RuleA(f, t) == VolumeSurge(f, t) /\ BullishBar(f, t)

(* Rule B with a strict comparison on the prior bar. *)
RuleB_StrictPrior(f, t) ==
    /\ "MA60" \in Columns(f)
    /\ LET t20 == Get(f, t, "MA20", NaN)
           t60 == Get(f, t, "MA60", NaN)
           y20 == Get(f, t - 1, "MA20", NaN)
           y60 == Get(f, t - 1, "MA60", NaN)
       IN  /\ ~isna(t20) /\ ~isna(t60) /\ ~isna(y20) /\ ~isna(y60)
           /\ Gt(t20, t60) /\ Lt(y20, y60)

RuleB(f, t) ==
    /\ "MA60" \in Columns(f)
    /\ LET t20 == Get(f, t, "MA20", NaN)
           t60 == Get(f, t, "MA60", NaN)
           y20 == Get(f, t - 1, "MA20", NaN)
           y60 == Get(f, t - 1, "MA60", NaN)
       IN  /\ ~isna(t20) /\ ~isna(t60) /\ ~isna(y20) /\ ~isna(y60)
           /\ Gt(t20, t60) /\ Le(y20, y60)

(* The conditions of an oscillator rebound rule before it reads Open. *)
Rebound(f, t, name, threshold) ==
    /\ name \in Columns(f)
    /\ LET tv == Get(f, t, name, NaN)
           yv == Get(f, t - 1, name, NaN)
       IN  /\ ~isna(tv) /\ ~isna(yv)
           /\ Le(yv, R(threshold)) /\ Gt(tv, yv)

(* Rule C without the test of today's bar. *)
RuleC_AnyBar(f, t) == Rebound(f, t, "RSI", 30)

RuleC(f, t) == Rebound(f, t, "RSI", 30) /\ BullishBar(f, t)

RuleD(f, t) ==
    /\ "MACD" \in Columns(f) /\ "MACD_Signal" \in Columns(f)
    /\ LET tmacd == Get(f, t, "MACD", NaN)
           tsig  == Get(f, t, "MACD_Signal", NaN)
           ymacd == Get(f, t - 1, "MACD", NaN)
           ysig  == Get(f, t - 1, "MACD_Signal", NaN)
       IN  /\ ~isna(tmacd) /\ ~isna(tsig) /\ ~isna(ymacd) /\ ~isna(ysig)
           /\ CellGt(tmacd, tsig) /\ CellLe(ymacd, ysig)

RuleE(f, t) == Rebound(f, t, "MFI", 20) /\ BullishBar(f, t)

RuleF(f, t) ==
    /\ "BB_Upper" \in Columns(f)
    /\ LET tclose == Get(f, t, "Close", NaN)
           tbbup  == Get(f, t, "BB_Upper", NaN)
       IN  tbbup.k # "nan" /\ ~isna(tclose) /\ GtBand(tclose, tbbup)

(* The try block swallows the KeyError of a missing column. *)
RuleG(f, t) ==
    /\ {"High", "Low", "Close", "Open"} \subseteq Columns(f)
    /\ LET candle_range == Sub(f.col["High"][t], f.col["Low"][t])
           body_range   == AbsR(Sub(f.col["Close"][t], f.col["Open"][t]))
       IN  /\ Gt(candle_range, R(0))
           /\ Ge(Div(body_range, candle_range), Rat(7, 10))
           /\ Gt(Sub(Div(f.col["Close"][t], f.col["Close"][t - 1]), R(1)),
                 Rat(3, 100))

(* n = 5: recent_df is the five rows before today. *)
LookbackN == 5

RecentRows(t) == {i \in (t - LookbackN)..(t - 1) : i >= 1}

(* Series.min(): NaN cells are skipped; NaN when none is left. *)
SeriesMin(s, rows) ==
    LET defined == {i \in rows : ~isna(s[i])}
    IN  IF defined = {} THEN NaN
        ELSE s[CHOOSE i \in defined : \A j \in defined : Le(s[i], s[j])]

CellSeriesMin(s, rows) ==
    LET defined == {i \in rows : ~isna(s[i])}
    IN  IF defined = {} THEN NaN
        ELSE s[CHOOSE i \in defined : \A j \in defined : CellLe(s[i], s[j])]

is_price_diverging(f, t) ==
    LET price_low_new == Get(f, t, "Close", NaN)
        price_low_old == SeriesMin(f.col["Close"], RecentRows(t))
    IN  ~isna(price_low_new) /\ ~isna(price_low_old)
        /\ Lt(price_low_new, price_low_old)

(* Rule H without the price precondition of line 217. *)
RuleH_NoPriceGate(f, t) ==
    /\ "RSI" \in Columns(f)
    /\ LET rsi_low_new == Get(f, t, "RSI", NaN)
           rsi_low_old == SeriesMin(f.col["RSI"], RecentRows(t))
       IN  /\ ~isna(rsi_low_new) /\ ~isna(rsi_low_old)
           /\ Gt(rsi_low_new, rsi_low_old) /\ Lt(rsi_low_new, R(40))

RuleH(f, t) ==
    /\ is_price_diverging(f, t)
    /\ "RSI" \in Columns(f)
    /\ LET rsi_low_new == Get(f, t, "RSI", NaN)
           rsi_low_old == SeriesMin(f.col["RSI"], RecentRows(t))
       IN  /\ ~isna(rsi_low_new) /\ ~isna(rsi_low_old)
           /\ Gt(rsi_low_new, rsi_low_old) /\ Lt(rsi_low_new, R(40))

RuleI(f, t) ==
    /\ is_price_diverging(f, t)
    /\ "MACD" \in Columns(f)
    /\ LET macd_low_new == Get(f, t, "MACD", NaN)
           macd_low_old == CellSeriesMin(f.col["MACD"], RecentRows(t))
       IN  /\ ~isna(macd_low_new) /\ ~isna(macd_low_old)
           /\ CellGt(macd_low_new, macd_low_old)
           /\ CellLt(macd_low_new, CellOfNat(0))

RuleJ(f, t) ==
    /\ "Disparity" \in Columns(f)
    /\ LET tdisparity == Get(f, t, "Disparity", NaN)
       IN  ~isna(tdisparity) /\ Le(tdisparity, R(95))

(* The numbers the reason text of a matched rule embeds (the texts of B,   *)
(* D, F and G are fixed).                                                   *)
Reason(r, f, t) ==
    CASE r = "A" ->
            LET pct_change ==
                    Mul(Div(Sub(f.col["Close"][t], f.col["Close"][t - 1]),
                            f.col["Close"][t - 1]), R(100))
            IN  <<FormatFixed(pct_change, 2)>>
      [] r = "C" -> <<FormatFixed(f.col["RSI"][t], 1)>>
      [] r = "E" -> <<FormatFixed(f.col["MFI"][t], 1)>>
      [] r = "H" -> <<FormatFixed(f.col["RSI"][t], 1)>>
      [] r = "I" -> <<FormatFixedCell(f.col["MACD"][t], 2)>>
      [] r = "J" -> <<FormatFixed(f.col["Disparity"][t], 1)>>
      [] OTHER   -> <<>>

(* The rule blocks in the order analyze_stock runs them; each appends at    *)
(* most one entry {"strategy", "reason"} to matched_reasons.                *)
Fires(r, f, t) ==
    CASE r = "A" -> RuleA(f, t)
      [] r = "B" -> RuleB(f, t)
      [] r = "C" -> RuleC(f, t)
      [] r = "D" -> RuleD(f, t)
      [] r = "E" -> RuleE(f, t)
      [] r = "F" -> RuleF(f, t)
      [] r = "G" -> RuleG(f, t)
      [] r = "H" -> RuleH(f, t)
      [] r = "I" -> RuleI(f, t)
      [] r = "J" -> RuleJ(f, t)

RuleBlock(reasons, selected, r, f, t) ==
    IF r \in selected /\ Fires(r, f, t)
    THEN Append(reasons, [strategy |-> r, reason |-> Reason(r, f, t)])
    ELSE reasons

(* The rule blocks with G's block placed before F's. *)
MatchedReasons_GBeforeF(selected, f, t) ==
    LET a == RuleBlock(<<>>, selected, "A", f, t)
        b == RuleBlock(a, selected, "B", f, t)
        c == RuleBlock(b, selected, "C", f, t)
        d == RuleBlock(c, selected, "D", f, t)
        e == RuleBlock(d, selected, "E", f, t)
        g == RuleBlock(RuleBlock(e, selected, "G", f, t), selected, "F", f, t)
        h == RuleBlock(g, selected, "H", f, t)
        i == RuleBlock(h, selected, "I", f, t)
    IN  RuleBlock(i, selected, "J", f, t)

MatchedReasons(selected, f, t) ==
    LET a == RuleBlock(<<>>, selected, "A", f, t)
        b == RuleBlock(a, selected, "B", f, t)
        c == RuleBlock(b, selected, "C", f, t)
        d == RuleBlock(c, selected, "D", f, t)
        e == RuleBlock(d, selected, "E", f, t)
        g == RuleBlock(RuleBlock(e, selected, "F", f, t), selected, "G", f, t)
        h == RuleBlock(g, selected, "H", f, t)
        i == RuleBlock(h, selected, "I", f, t)
    IN  RuleBlock(i, selected, "J", f, t)

(* Rules A, C and E read today['Open'] outside any try block, after their   *)
(* other conditions held: a frame without Open raises KeyError there.       *)
RaisesKeyError(selected, f, t) ==
    /\ ~HasOpen(f)
    /\ \/ "A" \in selected /\ VolumeSurge(f, t)
       \/ "C" \in selected /\ Rebound(f, t, "RSI", 30)
       \/ "E" \in selected /\ Rebound(f, t, "MFI", 20)

(* all_strategies of main, the catalogue offered for selection. *)
all_strategies == <<"A", "B", "C", "D", "E", "F", "G", "H", "I", "J">>

Range(s) == {s[i] : i \in 1..Len(s)}

(* [m['strategy'] for m in matched_reasons] *)
Strategies(matches) == [i \in 1..Len(matches) |-> matches[i].strategy]

(* The minimum number of rows analyze_stock evaluates rules on. *)
MinRows == 6

(* What analyze_stock hands back: a returned pair, or a raised exception.   *)
(* The second component is None or the object df_analyzed refers to.        *)
NoResult == [returned |-> FALSE, raised |-> FALSE, matches |-> <<>>, enriched |-> "None"]

Return(matches, enriched) ==
    [returned |-> TRUE, raised |-> FALSE, matches |-> matches, enriched |-> enriched]

Raise == [returned |-> FALSE, raised |-> TRUE, matches |-> <<>>, enriched |-> "None"]

----------------------------------------------------------------------------
(* Histories: what ticker_obj.history(period="1y") may return.  Prices are  *)
(* positive integers and volumes naturals (no NaN cell in the raw table).   *)
(* A Close series is a flat run (or the longest run with one step down)     *)
(* followed by a free tail; Open is the previous Close, High and Low add a  *)
(* wick around the body.  A shape sets                                      *)
(* today's bar: its Open (the previous Close, or today's Close), the wick   *)
(* of every bar and today's Volume (every earlier Volume is 1).             *)

Vals == {1, 2, 7}

FlatVals == {4}

MaxFlat == 20

MaxTail == 3

RECURSIVE SeqsUpTo(_, _)
SeqsUpTo(S, n) ==
    IF n = 0 THEN {<<>>}
    ELSE LET prev == SeqsUpTo(S, n - 1)
         IN  prev \cup {Append(q, v) : q \in {r \in prev : Len(r) = n - 1}, v \in S}

StepVals == {5}

(* A run of MaxFlat bars that steps down to the flat value LookbackN bars   *)
(* before its end.                                                          *)
SteppedRuns ==
    {[i \in 1..MaxFlat |-> IF i <= MaxFlat - LookbackN THEN s ELSE v] :
        s \in StepVals, v \in FlatVals}

CloseSeries ==
    {[i \in 1..m |-> v] \o t :
        v \in FlatVals, m \in 0..MaxFlat, t \in SeqsUpTo(Vals, MaxTail)}
    \cup {r \o t : r \in SteppedRuns, t \in SeqsUpTo(Vals, MaxTail)}

Shapes ==
    {[open |-> "prev", wick |-> 0, vol |-> 2], [open |-> "flat", wick |-> 1, vol |-> 2],
     [open |-> "prev", wick |-> 1, vol |-> 0]}

AllColumns == {"Open", "High", "Low", "Close", "Volume"}

MakeFrame(cs, shape, columns) ==
    LET n == Len(cs)
        open(i) == IF i = 1 THEN cs[1]
                   ELSE IF i = n /\ shape.open = "flat" THEN cs[n] ELSE cs[i - 1]
    IN  [none |-> FALSE, len |-> n,
         col |-> ConcreteMap([c \in columns |->
                    Concrete([i \in 1..n |->
                       CASE c = "Open"   -> R(open(i))
                         [] c = "High"   -> R(Max(open(i), cs[i]) + shape.wick)
                         [] c = "Low"    -> R(Min(open(i), cs[i]) - shape.wick)
                         [] c = "Close"  -> R(cs[i])
                         [] c = "Volume" -> R(IF i = n THEN shape.vol ELSE 1)])])]

(* Tables that lack one column, for the short histories only. *)
ColumnSets(cs) ==
    IF Len(cs) \in (MinRows - 1)..MinRows
    THEN {AllColumns} \cup {AllColumns \ {c} : c \in AllColumns}
    ELSE {AllColumns}

Histories ==
    UNION {{MakeFrame(cs, sh, cols) : sh \in Shapes, cols \in ColumnSets(cs)} :
              cs \in CloseSeries}

(* The selections analyze_stock is called with. *)
Selections ==
    {{}} \cup {{r} : r \in Range(all_strategies)} \cup {Range(all_strategies)}

----------------------------------------------------------------------------
(* analyze_stock(ticker, selected_strategies).  pc is the position in the   *)
(* function: "fetch" (lines 115-123), "calc" (125-132), "rules" (134-238),  *)
(* "done" after the return or the raise.  The selection is first read at    *)
(* line 143 and is drawn there.  A local of the function is bound with \E   *)
(* over a singleton, which evaluates its value once.                        *)

(* No scan is running. *)
NoScan ==
    tickers = <<>> /\ scan_i = 0 /\ found_count = 0 /\ evaluated = <<>> /\ shown = <<>>

Init ==
    /\ pc = "fetch"
    /\ df = NoneFrame
    /\ df_analyzed = NoneFrame
    /\ selected_strategies = {}
    /\ matched_reasons = <<>>
    /\ result = NoResult
    /\ NoScan

(* ticker_obj.history raises: return [], None *)
FetchRaises ==
    /\ pc = "fetch"
    /\ result' = Return(<<>>, "None")
    /\ pc' = "done"
    /\ UNCHANGED <<df, df_analyzed, selected_strategies, matched_reasons, scan>>

Fetch ==
    /\ pc = "fetch"
    /\ \E h \in Histories :
          /\ df' = h
          /\ IF h.len = 0 \/ h.len < 2 \/ "Close" \notin Columns(h)
             THEN result' = Return(<<>>, "None") /\ pc' = "done"
             ELSE result' = result /\ pc' = "calc"
    /\ UNCHANGED <<df_analyzed, selected_strategies, matched_reasons, scan>>

(* Calc as the failure contract words it: a failed computation returns     *)
(* [], None at once.                                                        *)
CalcFailureReturnsNone ==
    /\ pc = "calc"
    /\ \E computed \in {calculate_indicators(df)} :
           /\ df_analyzed' = computed
           /\ IF computed.none
              THEN result' = Return(<<>>, "None") /\ pc' = "done"
              ELSE IF computed.len < MinRows
              THEN result' = Return(<<>>, "df_analyzed") /\ pc' = "done"
              ELSE result' = result /\ pc' = "rules"
    /\ UNCHANGED <<df, selected_strategies, matched_reasons, scan>>

(* Calc with the length gate returning [], None. *)
CalcShortReturnsNone ==
    /\ pc = "calc"
    /\ \E computed \in {calculate_indicators(df)} :
       \E analyzed \in {IF computed.none THEN df ELSE computed} :
           /\ df_analyzed' = analyzed
           /\ IF analyzed.len < MinRows
              THEN result' = Return(<<>>, "None") /\ pc' = "done"
              ELSE result' = result /\ pc' = "rules"
    /\ UNCHANGED <<df, selected_strategies, matched_reasons, scan>>

Calc ==
    /\ pc = "calc"
    /\ \E computed \in {calculate_indicators(df)} :
       \E analyzed \in {IF computed.none THEN df ELSE computed} :
           /\ df_analyzed' = analyzed
           /\ IF analyzed.len < MinRows
              THEN result' = Return(<<>>, "df_analyzed") /\ pc' = "done"
              ELSE result' = result /\ pc' = "rules"
    /\ UNCHANGED <<df, selected_strategies, matched_reasons, scan>>

EvaluateRules ==
    /\ pc = "rules"
    /\ \E selected \in Selections :
          /\ selected_strategies' = selected
          /\ IF RaisesKeyError(selected, df_analyzed, df_analyzed.len)
             THEN matched_reasons' = matched_reasons /\ result' = Raise
             ELSE /\ matched_reasons' =
                        MatchedReasons(selected, df_analyzed, df_analyzed.len)
                  /\ result' = Return(matched_reasons', "df_analyzed")
    /\ pc' = "done"
    /\ UNCHANGED <<df, df_analyzed, scan>>

Next == FetchRaises \/ Fetch \/ Calc \/ EvaluateRules

Spec == Init /\ [][Next]_vars

----------------------------------------------------------------------------
(* Properties.                                                              *)

(* The fetched table passed the checks of line 122. *)
Validated == ~df.none /\ df.len >= 2 /\ "Close" \in Columns(df)

(* calculate_indicators returned a frame and Calc has just stored it: the   *)
(* states Calc leads to (df_analyzed is not written afterwards).            *)
Computed ==
    /\ Validated /\ ~RaisesInTry(df)
    /\ pc = "rules" \/ (pc = "done" /\ df.len < MinRows)

(* C1, as claimed: when calculate_indicators fails, analyze_stock returns   *)
(* an empty match list with a null enriched series and evaluates no rule.   *)
C1_FailureReturnsEmptyAndNone ==
    (pc = "done" /\ Validated /\ RaisesInTry(df))
        => (result = Return(<<>>, "None") /\ matched_reasons = <<>>)

(* C1, amended: when calculate_indicators fails, analyze_stock goes on with *)
(* a copy of the raw table.  It returns that table as the enriched series   *)
(* (never null).  Below six rows the match list is empty; from six rows on  *)
(* the rules gated on an indicator column find no such column, and rule G,  *)
(* which reads the raw bars only, is the one match there can be: it is in   *)
(* the list exactly when it is selected and its candle condition holds.     *)
C1_FailureFallsBackToRawTable ==
    (pc = "done" /\ Validated /\ RaisesInTry(df))
        => /\ result.returned
           /\ result.enriched = "df_analyzed"
           /\ df_analyzed = df
           /\ Range(Strategies(result.matches)) \subseteq {"G"}
           /\ Len(result.matches) <= 1
           /\ df.len < MinRows => result.matches = <<>>
           /\ df.len >= MinRows =>
                 ("G" \in Range(Strategies(result.matches))
                     <=> ("G" \in selected_strategies /\ RuleG(df, df.len)))

C1_FailureWithMatch ==
    pc = "done" /\ Validated /\ RaisesInTry(df) /\ Strategies(result.matches) = <<"G">>

(* The kinds ("num" or "nan") of the cells a matching rule has read: its    *)
(* values of today and yesterday and the rows of its lookback window.       *)
Kinds(f, name, rows) == {f.col[name][i].k : i \in rows}

InputKinds(r, f, t) ==
    CASE r = "A" -> Kinds(f, "Volume", {t}) \cup Kinds(f, "VolMA20", {t})
                       \cup Kinds(f, "Close", {t - 1, t}) \cup Kinds(f, "Open", {t})
      [] r = "B" -> Kinds(f, "MA20", {t - 1, t}) \cup Kinds(f, "MA60", {t - 1, t})
      [] r = "C" -> Kinds(f, "RSI", {t - 1, t}) \cup Kinds(f, "Close", {t})
                       \cup Kinds(f, "Open", {t})
      [] r = "D" -> Kinds(f, "MACD", {t - 1, t}) \cup Kinds(f, "MACD_Signal", {t - 1, t})
      [] r = "E" -> Kinds(f, "MFI", {t - 1, t}) \cup Kinds(f, "Close", {t})
                       \cup Kinds(f, "Open", {t})
      [] r = "F" -> Kinds(f, "Close", {t}) \cup Kinds(f, "BB_Upper", {t})
      [] r = "G" -> Kinds(f, "High", {t}) \cup Kinds(f, "Low", {t})
                       \cup Kinds(f, "Open", {t}) \cup Kinds(f, "Close", {t - 1, t})
      [] r = "H" -> Kinds(f, "Close", RecentRows(t) \cup {t})
                       \cup Kinds(f, "RSI", RecentRows(t) \cup {t})
      [] r = "I" -> Kinds(f, "Close", RecentRows(t) \cup {t})
                       \cup Kinds(f, "MACD", RecentRows(t) \cup {t})
      [] r = "J" -> Kinds(f, "Disparity", {t})

(* C2: a rule that read an undefined value (of today, of yesterday or       *)
(* inside its lookback window) produces no match.                           *)
C2_UndefinedInputNeverMatches ==
    (pc = "done" /\ result.returned)
        => \A r \in Range(Strategies(result.matches)) :
              "nan" \notin InputKinds(r, df_analyzed, df_analyzed.len)

(* The rolling-mean columns with their source column and window. *)
MeanColumns ==
    {[name |-> "MA5", of |-> "Close", window |-> 5],
     [name |-> "MA20", of |-> "Close", window |-> 20],
     [name |-> "MA60", of |-> "Close", window |-> 60],
     [name |-> "MA120", of |-> "Close", window |-> 120],
     [name |-> "VolMA20", of |-> "Volume", window |-> 20],
     [name |-> "BB_Mid", of |-> "Close", window |-> 20]}

RECURSIVE SumRows(_, _, _)
SumRows(s, lo, hi) == IF lo > hi THEN R(0) ELSE Add(s[lo], SumRows(s, lo + 1, hi))

(* The arithmetic mean of rows lo..hi, term by term. *)
MeanRows(s, lo, hi) == Div(SumRows(s, lo, hi), R(hi - lo + 1))

(* C3, as claimed: a windowed indicator is undefined at every row with less *)
(* history than its window: the rolling means at row i (counted from 1)     *)
(* when i < w, RSI and MFI at index i < 14 counted from 0 (rows 1..14).     *)
C3_UndefinedBelowWindow ==
    Computed =>
        \A i \in 1..df_analyzed.len :
            /\ \A m \in MeanColumns :
                  i < m.window => isna(df_analyzed.col[m.name][i])
            /\ i <= 14 => isna(df_analyzed.col["RSI"][i]) /\ isna(df_analyzed.col["MFI"][i])

(* C3, amended: the rolling means (MA5, MA20, MA60, MA120, VolMA20 and the  *)
(* Bollinger mid) are adaptive: defined at every row, the mean of the       *)
(* min(i, w) rows that exist up to row i.  RSI and MFI are undefined at     *)
(* every row with fewer than 14 rows up to it (index i < 13 counted from    *)
(* 0); from index 13 on they may be defined, computed from the 13 existing  *)
(* one-period differences and a zero in place of the first row's missing    *)
(* difference.                                                              *)
C3_AdaptiveMeansStrictOscillators ==
    Computed =>
        \A i \in 1..df_analyzed.len :
            /\ \A m \in MeanColumns :
                  /\ ~isna(df_analyzed.col[m.name][i])
                  /\ df_analyzed.col[m.name][i] =
                        MeanRows(df_analyzed.col[m.of], Max(1, i - m.window + 1), i)
            /\ i < 14 => isna(df_analyzed.col["RSI"][i]) /\ isna(df_analyzed.col["MFI"][i])

(* A mean over a window cut short by the start of the table, and RSI and    *)
(* MFI defined at index 13 with only 13 differences behind them.            *)
C3_ShortWindowValues ==
    /\ Computed
    /\ df_analyzed.len >= 14
    /\ ~isna(df_analyzed.col["RSI"][14])
    /\ ~isna(df_analyzed.col["MFI"][14])
    /\ df_analyzed.col["MA20"][14] # df_analyzed.col["Close"][14]
    /\ df_analyzed.col["MA20"][14] = MeanRows(df_analyzed.col["Close"], 1, 14)

(* analyze_stock returned from the end of the rule blocks, on a frame that  *)
(* calculate_indicators enriched.                                           *)
RulesEvaluated ==
    /\ pc = "done" /\ result.returned
    /\ Validated /\ ~RaisesInTry(df) /\ df.len >= MinRows

Matched(r) == r \in Range(Strategies(result.matches))

(* The fast line moves from at-or-below the slow line at row i - 1 to       *)
(* strictly above it at row i, all four values defined.                     *)
MaEdge(f, i) ==
    /\ \A j \in {i - 1, i} : ~isna(f.col["MA20"][j]) /\ ~isna(f.col["MA60"][j])
    /\ Gt(f.col["MA20"][i], f.col["MA60"][i])
    /\ Le(f.col["MA20"][i - 1], f.col["MA60"][i - 1])

MacdEdge(f, i) ==
    /\ \A j \in {i - 1, i} : ~isna(f.col["MACD"][j]) /\ ~isna(f.col["MACD_Signal"][j])
    /\ CellGt(f.col["MACD"][i], f.col["MACD_Signal"][i])
    /\ ~CellGt(f.col["MACD"][i - 1], f.col["MACD_Signal"][i - 1])

(* C4: a selected crossover rule (B on MA20/MA60, D on MACD/MACD_Signal)    *)
(* is in the returned match list if and only if all four values are         *)
(* defined, the fast line is strictly above the slow line today and         *)
(* at-or-below it yesterday; evaluated at every row of an enriched frame,   *)
(* the rule fires at every such edge and never at two consecutive rows.     *)
C4_CrossoverFiresOncePerEdge ==
    /\ RulesEvaluated =>
          /\ "B" \in selected_strategies =>
                (Matched("B") <=> MaEdge(df_analyzed, df_analyzed.len))
          /\ "D" \in selected_strategies =>
                (Matched("D") <=> MacdEdge(df_analyzed, df_analyzed.len))
    /\ (Computed /\ pc = "rules") =>
          \A i \in 2..df_analyzed.len :
             /\ MaEdge(df_analyzed, i) => RuleB(df_analyzed, i)
             /\ MacdEdge(df_analyzed, i) => RuleD(df_analyzed, i)
             /\ i > 2 =>
                   /\ ~(RuleB(df_analyzed, i) /\ RuleB(df_analyzed, i - 1))
                   /\ ~(RuleD(df_analyzed, i) /\ RuleD(df_analyzed, i - 1))

(* Both crossover rules fire on the same history. *)
C4_BothCrossoversMatch ==
    RulesEvaluated /\ Matched("B") /\ Matched("D")

InUnitRange(x) == Le(R(0), x) /\ Le(x, R(100))

(* C5: every defined value of the RSI column and of the MFI column lies in  *)
(* the closed interval [0, 100].                                            *)
C5_OscillatorsWithinBounds ==
    Computed =>
        \A i \in 1..df_analyzed.len :
            /\ ~isna(df_analyzed.col["RSI"][i]) => InUnitRange(df_analyzed.col["RSI"][i])
            /\ ~isna(df_analyzed.col["MFI"][i]) => InUnitRange(df_analyzed.col["MFI"][i])

(* A frame whose RSI and MFI are defined and strictly inside the interval. *)
C5_OscillatorsDefined ==
    /\ Computed
    /\ \E i \in 1..df_analyzed.len :
          /\ Lt(R(0), df_analyzed.col["RSI"][i]) /\ Lt(df_analyzed.col["RSI"][i], R(100))
          /\ Lt(R(0), df_analyzed.col["MFI"][i]) /\ Lt(df_analyzed.col["MFI"][i], R(100))

(* The claimed outcome of an oversold-rebound rule on today's and           *)
(* yesterday's value of its oscillator column.                              *)
ReboundOutcome(f, name, threshold) ==
    LET tv == f.col[name][f.len]
        yv == f.col[name][f.len - 1]
    IN  /\ ~isna(tv) /\ ~isna(yv)
        /\ Le(yv, R(threshold)) /\ Gt(tv, yv)
        /\ "Open" \in Columns(f)
        /\ Gt(f.col["Close"][f.len], f.col["Open"][f.len])

(* C6: a selected oversold-rebound rule (C on RSI with 30, E on MFI with    *)
(* 20) is not in the match list when today's or yesterday's oscillator      *)
(* value is undefined; when both are defined it is in the list exactly when *)
(* yesterday's value <= threshold, today's value > yesterday's and today's  *)
(* Close > Open.                                                            *)
C6_ReboundRulesNeedDefinedValues ==
    RulesEvaluated =>
        /\ "C" \in selected_strategies =>
              (Matched("C") <=> ReboundOutcome(df_analyzed, "RSI", 30))
        /\ "E" \in selected_strategies =>
              (Matched("E") <=> ReboundOutcome(df_analyzed, "MFI", 20))

(* Both rebound rules match on the same history. *)
C6_BothReboundsMatch ==
    RulesEvaluated /\ Matched("C") /\ Matched("E")

(* Rows lo..hi of s hold one value. *)
ConstantRows(s, lo, hi) == \A j \in lo..hi : s[j] = s[lo]

(* C7: wherever BB_Mid is defined both bands are defined and                *)
(* BB_Lower <= BB_Mid <= BB_Upper; where the 20-row window holds a single   *)
(* row or one repeated Close (deviation undefined or zero) both bands equal *)
(* BB_Mid; and rule F does not match on a constant Close series.            *)
C7_BandsOrderedAndCollapse ==
    /\ Computed =>
          \A i \in 1..df_analyzed.len :
             LET mid   == df_analyzed.col["BB_Mid"][i]
                 upper == df_analyzed.col["BB_Upper"][i]
                 lower == df_analyzed.col["BB_Lower"][i]
             IN  ~isna(mid) =>
                    /\ upper.k = "num" /\ lower.k = "num"
                    /\ CmpBand(mid, lower) >= 0
                    /\ CmpBand(mid, upper) <= 0
                    /\ ConstantRows(df_analyzed.col["Close"], Max(1, i - 19), i) =>
                          CmpBand(mid, lower) = 0 /\ CmpBand(mid, upper) = 0
    /\ (RulesEvaluated /\ "F" \in selected_strategies
          /\ ConstantRows(df.col["Close"], 1, df.len)) => ~Matched("F")

(* Rule F evaluated on a constant Close series of 20 rows. *)
C7_ConstantSeriesEvaluated ==
    /\ RulesEvaluated /\ "F" \in selected_strategies
    /\ df.len >= 20 /\ ConstantRows(df.col["Close"], 1, df.len)
    /\ CmpBand(df_analyzed.col["Close"][df.len], df_analyzed.col["BB_Upper"][df.len]) = 0

(* The position of a rule in the catalogue. *)
CatalogueIndex(r) == CHOOSE i \in 1..Len(all_strategies) : all_strategies[i] = r

(* C8: a returned match list is in catalogue order: it holds only selected  *)
(* rules, each at most once, an earlier rule of the catalogue before a      *)
(* later one; and a selected rule is in the list exactly when it is in the  *)
(* list that the same table gives with that rule selected alone.            *)
C8_MatchesInCatalogueOrder ==
    (pc = "done" /\ result.returned) =>
        /\ Range(Strategies(result.matches)) \subseteq selected_strategies
        /\ Range(Strategies(result.matches)) \subseteq Range(all_strategies)
        /\ \A i, j \in 1..Len(result.matches) :
              i < j => CatalogueIndex(result.matches[i].strategy)
                          < CatalogueIndex(result.matches[j].strategy)
        /\ (Validated /\ df_analyzed.len >= MinRows) =>
              \A r \in selected_strategies :
                 Matched(r) <=>
                    Strategies(MatchedReasons({r}, df_analyzed, df_analyzed.len)) = <<r>>

(* Every rule selected and at least four of them matching, F and G among    *)
(* them.                                                                    *)
C8_SeveralMatches ==
    /\ pc = "done" /\ result.returned
    /\ selected_strategies = Range(all_strategies)
    /\ Len(result.matches) >= 4
    /\ Matched("F") /\ Matched("G")

(* C9, as claimed: a history too short for rules to be evaluated (fewer     *)
(* than six rows, the empty one included) returns a null enriched series,   *)
(* and a result of evaluated rules a non-null one.                          *)
C9_ShortHistoryReturnsNull ==
    (pc = "done" /\ result.returned) =>
        /\ df.len < MinRows => result.enriched = "None"
        /\ (Validated /\ df.len >= MinRows) => result.enriched # "None"

(* C9, amended: the enriched series is null exactly when the fetch raised   *)
(* or the table is empty, has fewer than two rows or has no Close column.   *)
(* A history of two to five rows returns an empty match list with a         *)
(* non-null enriched series of its length, as a zero-match evaluation does; *)
(* whenever rules were evaluated the enriched series is non-null.           *)
C9_NullOnlyForRejectedTable ==
    (pc = "done" /\ result.returned) =>
        /\ result.enriched = "None" <=> ~Validated
        /\ result.enriched # "None" =>
              /\ result.enriched = "df_analyzed"
              /\ ~df_analyzed.none /\ df_analyzed.len = df.len
        /\ (Validated /\ df.len < MinRows) => result.matches = <<>>

(* A history of two to five rows returned with its enriched series. *)
C9_ShortHistoryWithSeries ==
    /\ pc = "done" /\ result.returned
    /\ df.len \in 2..(MinRows - 1) /\ ~RaisesInTry(df)
    /\ result = Return(<<>>, "df_analyzed")
    /\ "RSI" \in Columns(df_analyzed)

(* The rows of the 14-row window ending at row i that have a difference to  *)
(* the row before.                                                          *)
DiffRows(i) == {j \in (i - 13)..i : j >= 2}

(* Three times the typical price of row j. *)
TypicalSum(f, j) == Add(Add(f.col["High"][j], f.col["Low"][j]), f.col["Close"][j])

Falls(f, j) == Lt(TypicalSum(f, j), TypicalSum(f, j - 1))

(* No Close of the window is below the Close before it: the average loss    *)
(* is exactly zero.                                                         *)
ZeroLoss(f, i) == \A j \in DiffRows(i) : ~Lt(f.col["Close"][j], f.col["Close"][j - 1])

(* Every row of the window whose typical price falls has a money flow of    *)
(* zero: the negative money-flow sum is exactly zero.                       *)
ZeroNegativeFlow(f, i) ==
    \A j \in DiffRows(i) :
        Falls(f, j) => Mul(TypicalSum(f, j), f.col["Volume"][j]) = R(0)

(* C10: at every row with a full 14-row window, RSI is undefined when the   *)
(* window's average loss is exactly zero and MFI is undefined when the      *)
(* window's negative money-flow sum is exactly zero; calculate_indicators   *)
(* returns its frame with both columns.                                     *)
C10_ZeroDenominatorIsUndefined ==
    Computed =>
        /\ {"RSI", "MFI"} \subseteq Columns(df_analyzed)
        /\ \A i \in 14..df_analyzed.len :
              /\ ZeroLoss(df_analyzed, i) => isna(df_analyzed.col["RSI"][i])
              /\ ZeroNegativeFlow(df_analyzed, i) => isna(df_analyzed.col["MFI"][i])

(* A window with gains and no loss, and a window whose only falling row has *)
(* zero Volume.                                                             *)
C10_GainsWithoutLoss ==
    /\ Computed
    /\ \E i \in 14..df_analyzed.len :
          /\ ZeroLoss(df_analyzed, i)
          /\ \E j \in DiffRows(i) :
                Gt(df_analyzed.col["Close"][j], df_analyzed.col["Close"][j - 1])
          /\ isna(df_analyzed.col["RSI"][i])
    /\ \E i \in 14..df_analyzed.len :
          /\ ZeroNegativeFlow(df_analyzed, i)
          /\ \E j \in DiffRows(i) : Falls(df_analyzed, j)
          /\ isna(df_analyzed.col["MFI"][i])

----------------------------------------------------------------------------
(* C12.                                                                     *)

(* The rule blocks ran on df_analyzed (the enriched or the raw table). *)
RulesRan == pc = "done" /\ result.returned /\ Validated /\ df_analyzed.len >= MinRows

(* The RSI of row i, undefined on a table without that column. *)
RsiAt(i) == Get(df_analyzed, i, "RSI", NaN)

(* The LookbackN bars before today. *)
PriorBars == (df_analyzed.len - LookbackN)..(df_analyzed.len - 1)

(* Today's Close is strictly below every Close of the prior bars. *)
PriceNewLow ==
    \A j \in PriorBars :
        Lt(df_analyzed.col["Close"][df_analyzed.len], df_analyzed.col["Close"][j])

(* The RSI low of the prior bars is the least of their defined values (NaN  *)
(* is skipped); today's RSI is above it when it is above one of them.       *)
RsiAbovePriorLow ==
    \E j \in PriorBars : ~isna(RsiAt(j)) /\ Gt(RsiAt(df_analyzed.len), RsiAt(j))

(* The decimal a formatted number reads as. *)
Decimal(text) ==
    LET v == Rat(text.whole * 10^text.digits + text.frac, 10^text.digits)
    IN  IF text.neg THEN Neg(v) ELSE v

HEntries == {i \in 1..Len(result.matches) : result.matches[i].strategy = "H"}

(* C12: whenever the rule blocks ran, H is in the returned list if and only *)
(* if it is selected, today's Close is strictly below the lowest Close of   *)
(* the 5 prior bars, today's RSI is defined, the RSI low of the 5 prior     *)
(* bars is defined and strictly below today's RSI, and today's RSI is below *)
(* 40; H is listed at most once, and its reason embeds one number with one  *)
(* fractional digit that is today's RSI rounded to the nearest tenth.       *)
C12_DivergenceRuleFiresExactly ==
    RulesRan =>
        /\ Matched("H") <=>
              /\ "H" \in selected_strategies
              /\ PriceNewLow
              /\ ~isna(RsiAt(df_analyzed.len))
              /\ RsiAbovePriorLow
              /\ Lt(RsiAt(df_analyzed.len), R(40))
        /\ Cardinality(HEntries) <= 1
        /\ \A i \in HEntries :
              LET reason == result.matches[i].reason
              IN  /\ Len(reason) = 1
                  /\ reason[1].digits = 1
                  /\ Le(AbsR(Sub(Decimal(reason[1]), RsiAt(df_analyzed.len))), Rat(1, 20))

(* Witness: H matched on an RSI that is not a whole number of tenths, and   *)
(* every RSI of the prior bars defined.                                     *)
C12_DivergenceMatchedAndRounded ==
    /\ RulesRan /\ Matched("H")
    /\ \A j \in PriorBars : ~isna(RsiAt(j))
    /\ Mul(RsiAt(df_analyzed.len), R(10)).d # 1

----------------------------------------------------------------------------
(* calculate_indicators on a growing history.  CausalSpec applies the       *)
(* function to a table and again after each further bar: df is the table,   *)
(* df_analyzed the frame calculate_indicators returns for it.  The Close    *)
(* series is a flat run of up to MaxFlat bars followed by up to MaxTail     *)
(* free bars; a free bar trades Volume 2 without a wick or no Volume with   *)
(* a wick, a bar of the flat run Volume 1.                                  *)

DerivedColumns ==
    {"MA5", "MA20", "MA60", "MA120", "RSI", "MFI", "MACD", "MACD_Signal",
     "BB_Mid", "BB_Upper", "BB_Lower", "VolMA20", "Disparity"}

(* One bar after a bar that closed at prev: it opens where that bar closed. *)
Bar(prev, close, wick, volume) ==
    [Open |-> R(prev), High |-> R(Max(prev, close) + wick),
     Low |-> R(Min(prev, close) - wick), Close |-> R(close), Volume |-> R(volume)]

FlatBars(prev) == {Bar(prev, v, 0, 1) : v \in FlatVals}

(* A bar without Volume has a wick and closes at the low or the high value. *)
QuietVals == {1, 7}

TailBars(prev) ==
    {Bar(prev, v, 0, 2) : v \in Vals} \cup {Bar(prev, v, 1, 0) : v \in QuietVals}

(* The table f with one more row. *)
AppendRow(f, bar) ==
    [f EXCEPT !.len = f.len + 1,
              !.col = ConcreteMap([c \in AllColumns |->
                         Append(IF f.len = 0 THEN <<>> ELSE f.col[c], bar[c])])]

EmptyFrame == [none |-> FALSE, len |-> 0, col |-> <<>>]

(* The number of bars of f from the first bar that left the flat run. *)
RECURSIVE TailLen(_, _)
TailLen(f, i) ==
    IF i > f.len THEN 0
    ELSE IF f.col["Close"][i].n \in FlatVals THEN TailLen(f, i + 1)
    ELSE f.len - i + 1

(* The bars that may follow the table f. *)
NextBars(f) ==
    LET prev == IF f.len = 0 THEN 0 ELSE f.col["Close"][f.len].n
        tail == TailLen(f, 1)
        flat == IF tail = 0 /\ f.len < MaxFlat
                THEN UNION {FlatBars(IF f.len = 0 THEN v ELSE prev) : v \in FlatVals}
                ELSE {}
        free == IF tail < MaxTail
                THEN UNION {TailBars(IF f.len = 0 THEN v ELSE prev) : v \in Vals}
                ELSE {}
    IN  flat \cup free

CausalInit ==
    /\ pc = "indicators"
    /\ df \in {AppendRow(EmptyFrame, bar) : bar \in NextBars(EmptyFrame)}
    /\ df_analyzed = calculate_indicators(df)
    /\ selected_strategies = {}
    /\ matched_reasons = <<>>
    /\ result = NoResult
    /\ NoScan

AppendBar ==
    /\ pc = "indicators"
    /\ \E bar \in NextBars(df) :
          \E longer \in {AppendRow(df, bar)} :
              /\ df' = longer
              /\ df_analyzed' = calculate_indicators(longer)
    /\ UNCHANGED <<pc, selected_strategies, matched_reasons, result, scan>>

CausalNext == AppendBar

CausalSpec == CausalInit /\ [][CausalNext]_vars

(* Row i of the derived columns. *)
DerivedRow(f, i) == [c \in DerivedColumns |-> f.col[c][i]]

(* C11: every derived column of calculate_indicators is causal.  Adding a   *)
(* later bar to a table leaves every row of the thirteen derived columns    *)
(* as it was computed without that bar.  Two series that agree on the bars  *)
(* at indices <= i both grow, bar by bar, out of their common first i bars, *)
(* so row i of every derived column is the same in both, whatever the       *)
(* later bars and the lengths are.                                          *)
C11_DerivedColumnsAreCausal ==
    [][\A i \in 1..df.len : DerivedRow(df_analyzed', i) = DerivedRow(df_analyzed, i)]_vars

(* Witness: a table of more than 20 bars whose row before the last has a    *)
(* full 20-bar window, defined oscillators and MACD, and whose last bar     *)
(* closes elsewhere, with another Volume.                                   *)
C11_LaterBarDiffers ==
    /\ pc = "indicators"
    /\ df.len > 20
    /\ LET i == df.len - 1
       IN  /\ ~isna(df_analyzed.col["RSI"][i])
           /\ ~isna(df_analyzed.col["MFI"][i])
           /\ df_analyzed.col["MACD"][i].k = "num"
           /\ df.col["Close"][df.len] # df.col["Close"][i]
           /\ df.col["Volume"][df.len] # df.col["Volume"][i]

----------------------------------------------------------------------------
(* main: the scan started by the button (lines 407-484).                    *)

(* analyze_stock(ticker, selected_strategies) as a function of what         *)
(* ticker_obj.history gives (raises, or a table): the result it hands back  *)
(* and the frame its second component refers to.  OnTable is the function   *)
(* from line 131 on, with df_analyzed as a value.                           *)
OnTable(analyzed, selected) ==
    IF analyzed.len < MinRows
    THEN [result |-> Return(<<>>, "df_analyzed"), frame |-> analyzed]
    ELSE IF RaisesKeyError(selected, analyzed, analyzed.len)
    THEN [result |-> Raise, frame |-> NoneFrame]
    ELSE [result |-> Return(MatchedReasons(selected, analyzed, analyzed.len),
                            "df_analyzed"),
          frame |-> analyzed]

analyze_stock(fetched, selected) ==
    IF fetched.raises
    THEN [result |-> Return(<<>>, "None"), frame |-> NoneFrame]
    ELSE IF fetched.table.len = 0 \/ fetched.table.len < 2
            \/ "Close" \notin Columns(fetched.table)
    THEN [result |-> Return(<<>>, "None"), frame |-> NoneFrame]
    ELSE CHOOSE call \in
            {OnTable(IF computed.none THEN fetched.table ELSE computed, selected) :
                computed \in {calculate_indicators(fetched.table)}} : TRUE

(* The market the scan reads: what history() gives for each ticker.  A      *)
(* listed ticker has bars that open at the previous Close, without wicks.   *)
Table(cs, columns) ==
    [raises |-> FALSE,
     table |-> MakeFrame(cs, [open |-> "prev", wick |-> 0, vol |-> 2], columns)]

Tickers == {"UNLISTED", "RECENT", "FLAT", "SURGE", "NOVOLUME", "NOOPEN"}

Market ==
    [UNLISTED |-> [raises |-> TRUE, table |-> NoneFrame],
     RECENT   |-> Table(<<4, 4, 7>>, AllColumns),
     FLAT     |-> Table(<<4, 4, 4, 4, 4, 4>>, AllColumns),
     SURGE    |-> Table(<<4, 4, 4, 4, 4, 7>>, AllColumns),
     NOVOLUME |-> Table(<<4, 4, 4, 4, 4, 7>>, AllColumns \ {"Volume"}),
     NOOPEN   |-> Table(<<4, 4, 4, 4, 4, 7>>, AllColumns \ {"Open"})]

MaxTickers == 3

(* tickers_input split at commas: any list of tickers, repeats included. *)
TickerLists == SeqsUpTo(Tickers, MaxTickers)

(* The multiselect: nothing, one strategy, or the whole catalogue. *)
ScanSelections == {{}, {"G"}, Range(all_strategies)}

ScanInit ==
    /\ pc = "button"
    /\ tickers \in TickerLists
    /\ selected_strategies \in ScanSelections
    /\ scan_i = 0 /\ found_count = 0 /\ evaluated = <<>> /\ shown = <<>>
    /\ df = NoneFrame /\ df_analyzed = NoneFrame
    /\ matched_reasons = <<>> /\ result = NoResult

(* Lines 408-417: without a selection warn and return, otherwise start. *)
StartScan ==
    /\ pc = "button"
    /\ IF selected_strategies = {}
       THEN pc' = "warned" /\ UNCHANGED <<scan_i, found_count>>
       ELSE pc' = "scan" /\ scan_i' = 1 /\ found_count' = 0
    /\ UNCHANGED <<df, df_analyzed, selected_strategies, matched_reasons, result,
                   tickers, evaluated, shown>>

(* Lines 419-481, one pass of the loop body.  get_stock_info catches its    *)
(* own failures.  The call of analyze_stock (line 425) is outside any try:  *)
(* an exception it raises leaves main.  The display and the alert of a      *)
(* match run inside the try of lines 432-478, whose failures (chart,        *)
(* network) are caught and reported.                                        *)
ScanTicker ==
    /\ pc = "scan" /\ scan_i <= Len(tickers)
    /\ evaluated' = Append(evaluated, tickers[scan_i])
    /\ \E call \in {analyze_stock(Market[tickers[scan_i]], selected_strategies)} :
          IF call.result.raised
          THEN /\ pc' = "raised"
               /\ UNCHANGED <<matched_reasons, df_analyzed, found_count, shown, scan_i>>
          ELSE /\ matched_reasons' = call.result.matches
               /\ df_analyzed' = call.frame
               /\ IF call.result.matches # <<>>
                  THEN /\ found_count' = found_count + 1
                       /\ \E outcome \in {"alerted", "error"} :
                             shown' = Append(shown, <<tickers[scan_i], outcome>>)
                  ELSE UNCHANGED <<found_count, shown>>
               /\ scan_i' = scan_i + 1
               /\ pc' = pc
    /\ UNCHANGED <<df, selected_strategies, result, tickers>>

(* Lines 483-484: the loop is over, the message reports found_count. *)
FinishScan ==
    /\ pc = "scan" /\ scan_i > Len(tickers)
    /\ pc' = "done"
    /\ UNCHANGED <<df, df_analyzed, selected_strategies, matched_reasons, result, scan>>

ScanNext == StartScan \/ ScanTicker \/ FinishScan

ScanSpec == ScanInit /\ [][ScanNext]_vars

(* The tickers of the list whose match list is not empty. *)
MatchingPositions ==
    {k \in 1..Len(tickers) :
        LET call == analyze_stock(Market[tickers[k]], selected_strategies)
        IN  call.result.returned /\ call.result.matches # <<>>}

(* C13: in a scan pass analyze_stock is called on the tickers in list       *)
(* order, once each (the calls so far are the first tickers of the list);   *)
(* no failure of a ticker ends the pass before the list is finished; and    *)
(* when the pass is over every ticker was evaluated and found_count is the  *)
(* number of tickers whose match list was not empty.                        *)
C13_ScanCoversEveryTicker ==
    /\ Len(evaluated) <= Len(tickers)
    /\ evaluated = SubSeq(tickers, 1, Len(evaluated))
    /\ pc # "raised"
    /\ pc = "done" =>
          /\ evaluated = tickers
          /\ found_count = Cardinality(MatchingPositions)

============================================================================
